---- MODULE Spec2Model ----
(***************************************************************************)
(* rustylang: per-locale JSON catalogs kept in sync with a source catalog. *)
(*                                                                         *)
(* Strings (keys, paths, leaf texts) are sequences of one-character        *)
(* strings, so that escaping and parsing are computed character by         *)
(* character as the code does.                                             *)
(***************************************************************************)
EXTENDS Integers, Sequences, FiniteSets, TLC

(***************************************************************************)
(* Characters, in ascending byte order (the order of Rust's String: Ord).  *)
(***************************************************************************)
Digits == <<"0", "1", "2", "3", "4", "5", "6", "7", "8", "9">>

Alphabet == <<".">> \o Digits \o <<"<", ">", "T", "[", "\\", "]", "a", "b", "c", "x", "y">>

Ord(c) == CHOOSE i \in 1..Len(Alphabet) : Alphabet[i] = c

IsDigit(c) == \E i \in 1..Len(Digits) : Digits[i] = c

DigitVal(c) == (CHOOSE i \in 1..Len(Digits) : Digits[i] = c) - 1

RECURSIVE StrLess(_, _)
StrLess(s, t) ==
    IF s = <<>> THEN t # <<>>
    ELSE IF t = <<>> THEN FALSE
    ELSE IF s[1] = t[1] THEN StrLess(Tail(s), Tail(t))
    ELSE Ord(s[1]) < Ord(t[1])

(***************************************************************************)
(* serde_json::Value.  Every variant is a record of the same shape so that *)
(* any two documents can be compared; an Object is a set of <<key, value>> *)
(* pairs with distinct keys.                                               *)
(***************************************************************************)
Null == [t |-> "Null", s |-> <<>>, m |-> {}, a |-> <<>>]

Number == [t |-> "Number", s |-> <<>>, m |-> {}, a |-> <<>>]

Str(s) == [t |-> "String", s |-> s, m |-> {}, a |-> <<>>]

Obj(m) == [t |-> "Object", s |-> <<>>, m |-> m, a |-> <<>>]

Arr(a) == [t |-> "Array", s |-> <<>>, m |-> {}, a |-> a]

EmptyObject == Obj({})

ObjKeys(m) == {e[1] : e \in m}

ObjHas(m, k) == \E e \in m : e[1] = k

ObjGet(m, k) == (CHOOSE e \in m : e[1] = k)[2]

ObjInsert(m, k, v) == {e \in m : e[1] # k} \cup {<<k, v>>}

MinKey(ks) == CHOOSE k \in ks : \A j \in ks : j = k \/ StrLess(k, j)

\* Vec::resize(n, fill)
Resize(a, n, fill) ==
    IF n <= Len(a) THEN SubSeq(a, 1, n)
    ELSE a \o [i \in 1..(n - Len(a)) |-> fill]

(***************************************************************************)
(* diff.rs: flatten_string_paths / escape_key.  A BTreeMap<String, String> *)
(* is a set of <<path, text>> pairs with distinct paths.                   *)
(***************************************************************************)
NoPrefix == [some |-> FALSE, p |-> <<>>]

SomePrefix(p) == [some |-> TRUE, p |-> p]

MapHas(map, p) == \E e \in map : e[1] = p

MapGet(map, p) == (CHOOSE e \in map : e[1] = p)[2]

MapInsert(map, p, v) == {e \in map : e[1] # p} \cup {<<p, v>>}

\* BTreeMap::extend: entries of `more` replace entries with the same key
MapExtend(map, more) == {e \in map : ~MapHas(more, e[1])} \cup more

RECURSIVE escape_key(_)
escape_key(k) ==
    IF k = <<>> THEN <<>>
    ELSE IF k[1] = "." THEN <<"\\", ".">> \o escape_key(Tail(k))
    ELSE <<k[1]>> \o escape_key(Tail(k))

\* format!("{}", i) for an index
RECURSIVE ToDec(_)
ToDec(n) ==
    IF n < 10 THEN <<Digits[n + 1]>>
    ELSE ToDec(n \div 10) \o <<Digits[(n % 10) + 1]>>

RECURSIVE flatten_string_paths(_, _)
RECURSIVE FlattenObject(_, _, _, _)
RECURSIVE FlattenArray(_, _, _, _)

\* the loop over obj.iter(), keys ascending; ks are the keys still to visit
FlattenObject(m, ks, prefix, map) ==
    IF ks = {} THEN map
    ELSE LET k   == MinKey(ks)
             seg == escape_key(k)
             key == IF prefix.some /\ prefix.p # <<>>
                    THEN prefix.p \o <<".">> \o seg
                    ELSE seg
         IN  FlattenObject(m, ks \ {k}, prefix,
                 MapExtend(map, flatten_string_paths(ObjGet(m, k), SomePrefix(key))))

\* the loop over arr.iter().enumerate(); i is the 0-based index
FlattenArray(a, i, prefix, map) ==
    IF i >= Len(a) THEN map
    ELSE LET key == IF prefix.some
                    THEN prefix.p \o <<"[">> \o ToDec(i) \o <<"]">>
                    ELSE <<"[">> \o ToDec(i) \o <<"]">>
         IN  FlattenArray(a, i + 1, prefix,
                 MapExtend(map, flatten_string_paths(a[i + 1], SomePrefix(key))))

flatten_string_paths(v, prefix) ==
    CASE v.t = "Object" -> FlattenObject(v.m, ObjKeys(v.m), prefix, {})
      [] v.t = "Array"  -> FlattenArray(v.a, 0, prefix, {})
      [] v.t = "String" -> IF prefix.some THEN {<<prefix.p, v.s>>} ELSE {}
      [] OTHER          -> {}

Flatten(v) == flatten_string_paths(v, NoPrefix)

\* BTreeMap::into_iter(): the entries in ascending key order
RECURSIVE MapIter(_)
MapIter(map) ==
    IF map = {} THEN <<>>
    ELSE LET p == MinKey({e[1] : e \in map})
         IN  <<<<p, MapGet(map, p)>>>> \o MapIter({e \in map : e[1] # p})

NeedsFillIfAbsent(tgt, path, overwrite) == overwrite \/ ~MapHas(tgt, path)

\* diff.rs lines 36-40: the condition under which a source path is pushed
NeedsFill(tgt, path, overwrite) ==
    \/ overwrite
    \/ ~MapHas(tgt, path)
    \/ (IF MapHas(tgt, path) THEN MapGet(tgt, path) = <<>> ELSE TRUE)

RECURSIVE MissingLoop(_, _, _)
MissingLoop(src, tgt, overwrite) ==
    IF src = <<>> THEN <<>>
    ELSE (IF NeedsFill(tgt, src[1][1], overwrite) THEN <<src[1]>> ELSE <<>>)
         \o MissingLoop(Tail(src), tgt, overwrite)

compute_missing_translations(source, target, overwrite) ==
    MissingLoop(MapIter(Flatten(source)), Flatten(target), overwrite)

(***************************************************************************)
(* json_utils.rs: parse_dot_path                                           *)
(***************************************************************************)
KeySeg(k) == [k |-> "Key", key |-> k, idx |-> 0]

IndexSeg(n) == [k |-> "Index", key |-> <<>>, idx |-> n]

\* str::parse::<usize>() on the characters of the alphabet
IsUsize(num) == num # <<>> /\ \A i \in 1..Len(num) : IsDigit(num[i])

RECURSIVE UsizeVal(_)
UsizeVal(num) ==
    IF num = <<>> THEN 0
    ELSE 10 * UsizeVal(SubSeq(num, 1, Len(num) - 1)) + DigitVal(num[Len(num)])

\* if !buf.is_empty() { segments.push(Key(buf)); buf.clear(); }
Flush(segs, buf) == IF buf # <<>> THEN Append(segs, KeySeg(buf)) ELSE segs

\* position of the first ']' at or after i, or Len + 1 when the input ends first
RECURSIVE CloseAt(_, _)
CloseAt(path, i) ==
    IF i > Len(path) THEN i
    ELSE IF path[i] = "]" THEN i
    ELSE CloseAt(path, i + 1)

RECURSIVE ParseFrom(_, _, _, _)
ParseFrom(path, i, buf, segs) ==
    IF i > Len(path) THEN [ok |-> TRUE, segs |-> Flush(segs, buf)]
    ELSE LET c == path[i] IN
         CASE c = "\\" ->
                  IF i + 1 <= Len(path)
                  THEN ParseFrom(path, i + 2, Append(buf, path[i + 1]), segs)
                  ELSE ParseFrom(path, i + 1, Append(buf, "\\"), segs)
           [] c = "." -> ParseFrom(path, i + 1, <<>>, Flush(segs, buf))
           [] c = "[" ->
                  LET j   == CloseAt(path, i + 1)
                      num == SubSeq(path, i + 1, j - 1)
                  IN  IF IsUsize(num)
                      THEN ParseFrom(path, j + 1, <<>>,
                                     Append(Flush(segs, buf), IndexSeg(UsizeVal(num))))
                      ELSE [ok |-> FALSE, segs |-> <<>>]
           [] OTHER -> ParseFrom(path, i + 1, Append(buf, c), segs)

parse_dot_path(path) == ParseFrom(path, 1, <<>>, <<>>)

(***************************************************************************)
(* json_utils.rs: ensure_object / ensure_array / set_value_at_path.        *)
(* The code mutates in place; each operator returns the error (or "") and  *)
(* the node as the call leaves it, also when the call fails.               *)
(***************************************************************************)
Done(v) == [err |-> "", v |-> v]

Fail(e, v) == [err |-> e, v |-> v]

ensure_object(v) ==
    IF v.t = "Object" THEN Done(v)
    ELSE IF v.t = "Null" THEN Done(EmptyObject)
    ELSE Fail("InvalidDotPath", v)

ensure_array_objects(v, min_index, create_missing) ==
    IF v.t = "Array"
    THEN Done(IF Len(v.a) <= min_index THEN Arr(Resize(v.a, min_index + 1, EmptyObject)) ELSE v)
    ELSE IF v.t = "Null" /\ create_missing
    THEN Done(Arr([i \in 1..(min_index + 1) |-> EmptyObject]))
    ELSE Fail("InvalidDotPath", v)

ensure_array(v, min_index, create_missing) ==
    IF v.t = "Array"
    THEN Done(IF Len(v.a) <= min_index THEN Arr(Resize(v.a, min_index + 1, Null)) ELSE v)
    ELSE IF v.t = "Null" /\ create_missing
    THEN Done(Arr([i \in 1..(min_index + 1) |-> Null]))
    ELSE Fail("InvalidDotPath", v)

RECURSIVE SetWalk(_, _, _, _, _)
SetWalk(current, segs, i, value, create_missing) ==
    IF i > Len(segs) THEN Done(current)
    ELSE
    LET seg     == segs[i]
        is_last == (i = Len(segs))
    IN
    IF seg.k = "Key" THEN
        IF is_last THEN
            LET e == ensure_object(current) IN
            IF e.err # "" THEN e
            ELSE Done(Obj(ObjInsert(e.v.m, seg.key, value)))
        ELSE IF current.t = "Object" THEN
            IF ~ObjHas(current.m, seg.key) /\ ~create_missing
            THEN Fail("PathNotFound", current)
            ELSE LET m1 == IF ObjHas(current.m, seg.key) THEN current.m
                           ELSE ObjInsert(current.m, seg.key, EmptyObject)
                     r  == SetWalk(ObjGet(m1, seg.key), segs, i + 1, value, create_missing)
                 IN  [err |-> r.err, v |-> Obj(ObjInsert(m1, seg.key, r.v))]
        ELSE Fail("InvalidDotPath", current)
    ELSE
        IF is_last THEN
            LET e == ensure_array(current, seg.idx, create_missing) IN
            IF e.err # "" THEN e
            ELSE Done(Arr([Resize(e.v.a, IF seg.idx >= Len(e.v.a) THEN seg.idx + 1 ELSE Len(e.v.a), Null)
                               EXCEPT ![seg.idx + 1] = value]))
        ELSE IF current.t = "Array" THEN
            IF seg.idx >= Len(current.a) /\ ~create_missing
            THEN Fail("PathNotFound", current)
            ELSE LET a1 == IF seg.idx >= Len(current.a)
                           THEN Resize(current.a, seg.idx + 1, EmptyObject)
                           ELSE current.a
                     r  == SetWalk(a1[seg.idx + 1], segs, i + 1, value, create_missing)
                 IN  [err |-> r.err, v |-> Arr([a1 EXCEPT ![seg.idx + 1] = r.v])]
        ELSE IF current.t = "Null" /\ create_missing THEN
            LET a1 == ensure_array(Arr(<<>>), seg.idx, TRUE).v.a
                r  == SetWalk(a1[seg.idx + 1], segs, i + 1, value, create_missing)
            IN  [err |-> r.err, v |-> Arr([a1 EXCEPT ![seg.idx + 1] = r.v])]
        ELSE Fail("InvalidDotPath", current)

set_value_at_path(root, path, value, create_missing) ==
    LET p == parse_dot_path(path) IN
    IF ~p.ok THEN Fail("InvalidDotPath", root)
    ELSE SetWalk(root, p.segs, 1, value, create_missing)

(***************************************************************************)
(* openai_client.rs: response sanitation (lines 128-146).  A text is a     *)
(* sequence of characters; "LF" is a line feed, "SP" a space, "DQ" the     *)
(* plain double quote, "LDQ"/"RDQ" the curly double quotes, "SQ" the       *)
(* single quote.                                                           *)
(***************************************************************************)
IsSpace(c) == c \in {"SP", "LF"}

RECURSIVE TrimStart(_)
TrimStart(s) == IF s # <<>> /\ IsSpace(s[1]) THEN TrimStart(Tail(s)) ELSE s

RECURSIVE TrimEnd(_)
TrimEnd(s) ==
    IF s # <<>> /\ IsSpace(s[Len(s)]) THEN TrimEnd(SubSeq(s, 1, Len(s) - 1)) ELSE s

Trim(s) == TrimEnd(TrimStart(s))

\* str::lines(): the pieces between line feeds, no empty piece after a final one
RECURSIVE Lines(_, _)
Lines(s, cur) ==
    IF s = <<>> THEN (IF cur = <<>> THEN <<>> ELSE <<cur>>)
    ELSE IF s[1] = "LF" THEN <<cur>> \o Lines(Tail(s), <<>>)
    ELSE Lines(Tail(s), Append(cur, s[1]))

RECURSIVE FirstNonEmpty(_)
FirstNonEmpty(ls) ==
    IF ls = <<>> THEN <<>>
    ELSE IF Trim(ls[1]) # <<>> THEN ls[1]
    ELSE FirstNonEmpty(Tail(ls))

QuotePairs == << <<"DQ", "DQ">>, <<"LDQ", "RDQ">>, <<"SQ", "SQ">> >>

RECURSIVE StripQuotes(_, _)
StripQuotes(line, i) ==
    IF i > Len(QuotePairs) THEN line
    ELSE IF Len(line) >= 2 /\ line[1] = QuotePairs[i][1] /\ line[Len(line)] = QuotePairs[i][2]
    THEN StripQuotes(Trim(SubSeq(line, 2, Len(line) - 1)), i + 1)
    ELSE StripQuotes(line, i + 1)

Sanitize(raw) == StripQuotes(Trim(FirstNonEmpty(Lines(raw, <<>>))), 1)

(***************************************************************************)
(* cli.rs: extract_placeholders.  The four regular expressions are matched *)
(* at a position of the text; a match is given by the position after it, 0 *)
(* means no match at this position.                                        *)
(***************************************************************************)
AsciiLetters ==
    {"A", "B", "C", "D", "E", "F", "G", "H", "I", "J", "K", "L", "M", "N", "O", "P",
    "Q", "R", "S", "T", "U", "V", "W", "X", "Y", "Z", "a", "b", "c", "d", "e", "f", "g",
    "h", "i", "j", "k", "l", "m", "n", "o", "p", "q", "r", "s", "t", "u", "v", "w", "x",
    "y", "z"}

\* [A-Za-z_]
IsWordStart(c) == c \in AsciiLetters \cup {"_"}

\* [A-Za-z0-9_]
IsWordChar(c) == IsWordStart(c) \/ IsDigit(c)

\* position of the first '}' at or after i, or Len + 1 when the text ends first
RECURSIVE BraceAt(_, _)
BraceAt(s, i) ==
    IF i > Len(s) THEN i
    ELSE IF s[i] = "}" THEN i
    ELSE BraceAt(s, i + 1)

\* position after the run of [A-Za-z0-9_] that starts at i
RECURSIVE WordEnd(_, _)
WordEnd(s, i) ==
    IF i > Len(s) THEN i
    ELSE IF IsWordChar(s[i]) THEN WordEnd(s, i + 1)
    ELSE i

\* \{\{[^}]+\}\}
MatchMustache(s, i) ==
    IF i + 1 <= Len(s) /\ s[i] = "{" /\ s[i + 1] = "{"
    THEN LET j == BraceAt(s, i + 2)
         IN  IF j > i + 2 /\ j + 1 <= Len(s) /\ s[j + 1] = "}" THEN j + 2 ELSE 0
    ELSE 0

\* \{[^}]+\}
MatchBrace(s, i) ==
    IF s[i] = "{"
    THEN LET j == BraceAt(s, i + 1)
         IN  IF j > i + 1 /\ j <= Len(s) THEN j + 1 ELSE 0
    ELSE 0

\* :[A-Za-z_][A-Za-z0-9_]*
MatchNamed(s, i) ==
    IF i + 1 <= Len(s) /\ s[i] = ":" /\ IsWordStart(s[i + 1])
    THEN WordEnd(s, i + 2)
    ELSE 0

\* %[sd]?
MatchPercent(s, i) ==
    IF s[i] = "%"
    THEN (IF i + 1 <= Len(s) /\ s[i + 1] \in {"s", "d"} THEN i + 2 ELSE i + 1)
    ELSE 0

\* the patterns, in the order of the vector of line 227
Patterns == <<"mustache", "brace", "named", "percent">>

MatchAt(re, s, i) ==
    CASE re = "mustache" -> MatchMustache(s, i)
      [] re = "brace"    -> MatchBrace(s, i)
      [] re = "named"    -> MatchNamed(s, i)
      [] OTHER           -> MatchPercent(s, i)

\* re.find_iter(s) from position i: the leftmost matches, none overlapping another
RECURSIVE FindIter(_, _, _)
FindIter(re, s, i) ==
    IF i > Len(s) THEN <<>>
    ELSE LET e == MatchAt(re, s, i)
         IN  IF e = 0 THEN FindIter(re, s, i + 1)
             ELSE <<SubSeq(s, i, e - 1)>> \o FindIter(re, s, e)

Contains(out, p) == \E k \in 1..Len(out) : out[k] = p

\* lines 234-237: if !out.contains(&p) { out.push(p); } for each match
RECURSIVE PushNew(_, _)
PushNew(out, ms) ==
    IF ms = <<>> THEN out
    ELSE PushNew(IF Contains(out, ms[1]) THEN out ELSE Append(out, ms[1]), Tail(ms))

RECURSIVE ExtractFrom(_, _, _)
ExtractFrom(s, k, out) ==
    IF k > Len(Patterns) THEN out
    ELSE ExtractFrom(s, k + 1, PushNew(out, FindIter(Patterns[k], s, 1)))

extract_placeholders(s) == ExtractFrom(s, 1, <<>>)

(***************************************************************************)
(* json_utils.rs: files.  A file either does not exist, holds a parseable  *)
(* document, or holds text that is no JSON.                                *)
(***************************************************************************)
NoFile == [exists |-> FALSE, parses |-> FALSE, doc |-> Null]

FileOf(doc) == [exists |-> TRUE, parses |-> TRUE, doc |-> doc]

read_json_file(f) ==
    IF ~f.exists THEN [ok |-> TRUE, v |-> EmptyObject]
    ELSE IF ~f.parses THEN [ok |-> FALSE, v |-> Null]
    ELSE [ok |-> TRUE, v |-> f.doc]

\* d = [json, bak, tmp] are the three paths of one locale; copy_ok and io are
\* what the file system does: io is "ok", "write_err" or "rename_err"
write_json_atomic(d, json, copy_ok, io) ==
    LET d1 == IF d.json.exists /\ ~d.bak.exists /\ copy_ok
              THEN [d EXCEPT !.bak = d.json] ELSE d
    IN  IF io = "write_err" THEN [ok |-> FALSE, d |-> d1]
        ELSE IF io = "rename_err"
        THEN [ok |-> FALSE, d |-> [d1 EXCEPT !.tmp = FileOf(json)]]
        ELSE [ok |-> TRUE, d |-> [d1 EXCEPT !.tmp = NoFile, !.json = FileOf(json)]]

IoOutcomes == {"ok", "write_err", "rename_err"}

\* a file whose text is no JSON
CorruptFile == [exists |-> TRUE, parses |-> FALSE, doc |-> Null]

\* cli.rs handle_set, lines 71-83, on the three paths d of the file: read, set, write;
\* the result is whether the command succeeded and the files as it leaves them
handle_set(d, path, text, create_missing, copy_ok, io) ==
    LET r == read_json_file(d.json) IN
    IF ~r.ok THEN [ok |-> FALSE, d |-> d]
    ELSE LET u == set_value_at_path(r.v, path, Str(text), create_missing) IN
         IF u.err # "" THEN [ok |-> FALSE, d |-> d]
         ELSE write_json_atomic(d, u.v, copy_ok, io)

(***************************************************************************)
(* The translate run: cli.rs handle_translate, openai_client.rs translate  *)
(***************************************************************************)
Locales == <<"fr", "en", "de">>

LocaleSet == {Locales[i] : i \in 1..Len(Locales)}

SourceLocale == "en"

\* the largest configured concurrency explored
MaxConcurrency == 2

\* for attempt in 0..3
MaxAttempts == 3

VARIABLES
    cfg,              \* concurrency, overwrite, dry_run of the run
    fs,               \* per locale: the catalog file, its .bak and its .tmp
    pc,               \* handle_translate: "start", "running", "done_ok", "done_err"
    source,           \* the source document read at line 100
    next_locale,      \* position of the outer stream in `locales`
    loc,              \* per locale: the state of its future (lines 136-184)
    results,          \* the collected results, in completion order
    permits,          \* free permits of the gate
    waitq,            \* the calls waiting for a permit, oldest first
    usage,            \* global UsageCounters
    usage_by_locale,  \* per-locale UsageCounters
    call              \* a single call of a pure function: its arguments and result

vars == <<cfg, fs, pc, source, next_locale, loc, results, permits, waitq, usage, usage_by_locale, call>>

ZeroCounters == [prompt_tokens |-> 0, completion_tokens |-> 0, total_tokens |-> 0, requests |-> 0]

NoEntry == [present |-> FALSE, c |-> ZeroCounters]

None == [some |-> FALSE, v |-> 0]

Some(n) == [some |-> TRUE, v |-> n]

NoUsage == [some |-> FALSE, prompt_tokens |-> None, completion_tokens |-> None, total_tokens |-> None]

Usage(p, c, t) == [some |-> TRUE, prompt_tokens |-> p, completion_tokens |-> c, total_tokens |-> t]

\* the usage objects a response may carry: none, or one with a field left out
UsageReports == {NoUsage, Usage(Some(1), None, Some(3))}

\* the message contents a response may carry
RawOutputs == {<<"T">>}

NewTask == [st |-> "new", attempt |-> 0, kind |-> "", tx |-> <<>>, reported |-> NoUsage]

IdleLocale ==
    [st |-> "Pending", target |-> Null, to_fill |-> <<>>, next_key |-> 1,
     tasks |-> <<>>, updates |-> <<>>, would_update |-> -1, err |-> ""]

kA == <<"a">>
kB == <<"b">>
kC == <<"c">>

SrcFlat == Obj({<<kA, Str(<<"x">>)>>, <<kB, Str(<<"y">>)>>})
SrcNested == Obj({<<kA, Obj({<<kB, Str(<<"x">>)>>})>>})
SrcArray == Obj({<<kA, Arr(<<Str(<<"x">>)>>)>>})
SrcNoLeaf == Obj({<<kA, Number>>})

TgtExtra == Obj({<<kA, Str(<<>>)>>, <<kB, Str(<<"b">>)>>, <<kC, Str(<<"y">>)>>})
TgtLeaf == Obj({<<kA, Str(<<"b">>)>>})
TgtArray == Obj({<<kA, Arr(<<Str(<<"b">>)>>)>>})
TgtDeep == Obj({<<kA, Obj({<<kB, Str(<<"y">>)>>})>>, <<kB, Str(<<"b">>)>>})

\* the catalogs of the explored runs: the source file, fr's file, de's file
Catalogs ==
    { [source |-> SrcFlat,   fr |-> NoFile,          de |-> FileOf(TgtExtra)],
      [source |-> SrcFlat,   fr |-> FileOf(TgtDeep), de |-> FileOf(TgtLeaf)],
      [source |-> SrcNested, fr |-> FileOf(TgtLeaf), de |-> NoFile],
      [source |-> SrcNested, fr |-> FileOf(TgtDeep), de |-> FileOf(TgtExtra)],
      [source |-> SrcArray,  fr |-> NoFile,          de |-> FileOf(TgtArray)],
      [source |-> SrcNoLeaf, fr |-> NoFile,          de |-> NoFile] }

Dir(f) == [json |-> f, bak |-> NoFile, tmp |-> NoFile]

NoCall ==
    [op |-> "none", src |-> Null, tgt |-> Null, overwrite |-> FALSE,
     ok |-> TRUE, doc |-> Null, list |-> <<>>,
     segs |-> <<>>, path |-> <<>>, parsed |-> [ok |-> TRUE, segs |-> <<>>],
     create |-> FALSE, err |-> "", text |-> <<>>,
     before |-> Dir(NoFile), after |-> Dir(NoFile), out |-> <<>>]

FilesOf(c) ==
    [l \in LocaleSet |->
        IF l = SourceLocale THEN Dir(FileOf(c.source))
        ELSE IF l = "fr" THEN Dir(c.fr) ELSE Dir(c.de)]

Idle ==
    /\ pc = "start"
    /\ source = Null
    /\ next_locale = 1
    /\ loc = [l \in LocaleSet |-> IdleLocale]
    /\ results = <<>>
    /\ permits = 0
    /\ waitq = <<>>
    /\ usage = ZeroCounters
    /\ usage_by_locale = [l \in LocaleSet |-> NoEntry]
    /\ call = NoCall

Init ==
    /\ cfg \in [concurrency : 0..MaxConcurrency, overwrite : BOOLEAN, dry_run : BOOLEAN]
    /\ \E c \in Catalogs : fs = FilesOf(c)
    /\ Idle

GateSizePerLevel(concurrency) == IF concurrency > 1 THEN concurrency * concurrency ELSE 1

\* Semaphore::new(concurrency.max(1))
GateSize(concurrency) == IF concurrency > 1 THEN concurrency ELSE 1

\* lines 99-115: read the source, refuse a source without string leaves, build the
\* translator
Begin ==
    /\ pc = "start"
    /\ LET r == read_json_file(fs[SourceLocale].json) IN
       IF ~r.ok \/ Flatten(r.v) = {}
       THEN /\ pc' = "done_err"
            /\ UNCHANGED <<source, permits>>
       ELSE /\ pc' = "running"
            /\ source' = r.v
            /\ permits' = GateSize(cfg.concurrency)
    /\ UNCHANGED <<cfg, fs, next_locale, loc, results, waitq, usage, usage_by_locale, call>>

\* buffer_unordered(n) of futures 0.3: a further future is pulled while fewer than
\* n are in progress (with n = 0, none ever is)
HasSlot(n, in_progress) == in_progress < n

LocalesInProgress == Cardinality({l \in LocaleSet : loc[l].st = "Scheduled"})

TasksInProgress(l) ==
    Cardinality({i \in 1..Len(loc[l].tasks) : loc[l].tasks[i].st \in {"waiting", "inflight"}})

CanStartLocale ==
    /\ pc = "running"
    /\ next_locale <= Len(Locales)
    /\ HasSlot(cfg.concurrency, LocalesInProgress)

IsSourceLocaleNever(locale) == FALSE

\* line 137: if locale == source_locale { return Ok(()) }
IsSourceLocale(locale) == locale = SourceLocale

\* lines 136-149: the locale future up to the creation of its key stream
StartLocale ==
    /\ CanStartLocale
    /\ LET l == Locales[next_locale] IN
       IF IsSourceLocale(l)
       THEN /\ loc' = [loc EXCEPT ![l].st = "Skipped"]
            /\ results' = Append(results, [locale |-> l, ok |-> TRUE])
       ELSE LET r       == read_json_file(fs[l].json)
                target  == IF r.ok THEN r.v ELSE EmptyObject
                to_fill == compute_missing_translations(source, target, cfg.overwrite)
            IN  IF to_fill = <<>>
                THEN /\ loc' = [loc EXCEPT ![l].st = "NoWork"]
                     /\ results' = Append(results, [locale |-> l, ok |-> TRUE])
                ELSE /\ loc' = [loc EXCEPT ![l].st = "Scheduled", ![l].target = target,
                                           ![l].to_fill = to_fill,
                                           ![l].tasks = [i \in 1..Len(to_fill) |-> NewTask]]
                     /\ UNCHANGED results
    /\ next_locale' = next_locale + 1
    /\ UNCHANGED <<cfg, fs, pc, source, permits, waitq, usage, usage_by_locale, call>>

\* the result of translate
TranslateOk(tx) == [ok |-> TRUE, tx |-> tx]

TranslateErr == [ok |-> FALSE, tx |-> <<>>]

key_result_propagating(path, english, res) == [ok |-> res.ok, path |-> path, txt |-> res.tx]

\* lines 160-166: the item a key future yields for the result of translate; an
\* error is logged and replaced by the source text
key_result(path, english, res) ==
    IF res.ok THEN [ok |-> TRUE, path |-> path, txt |-> res.tx]
    ELSE [ok |-> TRUE, path |-> path, txt |-> english]

\* line 157
dry_result(path) == [ok |-> TRUE, path |-> path, txt |-> <<"<", "T", ">">>]

Path(l, i) == loc[l].to_fill[i][1]

English(l, i) == loc[l].to_fill[i][2]

\* a key future resolves with the result `res` of translate: its item joins
\* `updates`; the call keeps what the provider sent (its text and usage)
Resolve(l, i, res, reported) ==
    [loc EXCEPT ![l].tasks[i] = [st |-> "done", attempt |-> @.attempt,
                                 kind |-> IF res.ok THEN "ok" ELSE "fallback",
                                 tx |-> res.tx, reported |-> reported],
                ![l].updates = Append(@, key_result(Path(l, i), English(l, i), res))]

\* a key future of a dry run resolves without a call
ResolveDry(l, i) ==
    [loc EXCEPT ![l].tasks[i] = [NewTask EXCEPT !.st = "done", !.kind = "dry"],
                ![l].updates = Append(@, dry_result(Path(l, i)))]

\* line 156: a dry run never calls translate
SkipsProvider(dry_run) == dry_run

SkipsWriteNever(dry_run) == FALSE

\* line 175: a dry run returns before the merge and the write
SkipsWrite(dry_run) == dry_run

\* gate.acquire() takes a permit at once only while one is free
CanAcquire(free) == free > 0

\* lines 151-160 and openai_client.rs line 47: the next key future is pulled; in a
\* dry run it resolves at once, otherwise it calls translate, which takes a permit
\* or joins the queue of the gate
CanStartKey(l) ==
    /\ pc = "running"
    /\ loc[l].st = "Scheduled"
    /\ loc[l].next_key <= Len(loc[l].to_fill)
    /\ HasSlot(cfg.concurrency, TasksInProgress(l))

StartKey(l) ==
    /\ CanStartKey(l)
    /\ LET i == loc[l].next_key IN
       IF SkipsProvider(cfg.dry_run)
       THEN /\ loc' = [ResolveDry(l, i) EXCEPT ![l].next_key = i + 1]
            /\ UNCHANGED <<permits, waitq>>
       ELSE IF CanAcquire(permits)
       THEN /\ loc' = [loc EXCEPT ![l].tasks[i].st = "inflight", ![l].next_key = i + 1]
            /\ permits' = permits - 1
            /\ UNCHANGED waitq
       ELSE /\ loc' = [loc EXCEPT ![l].tasks[i].st = "waiting", ![l].next_key = i + 1]
            /\ waitq' = Append(waitq, <<l, i>>)
            /\ UNCHANGED permits
    /\ UNCHANGED <<cfg, fs, pc, source, next_locale, results, usage, usage_by_locale, call>>

HandoffLost(locs) == locs

\* the permit is dropped when translate returns: the oldest waiting call gets it,
\* or it goes back to the gate
Handoff(locs) ==
    IF waitq = <<>> THEN locs
    ELSE [locs EXCEPT ![waitq[1][1]].tasks[waitq[1][2]].st = "inflight"]

Release ==
    /\ permits' = IF waitq = <<>> THEN permits + 1 ELSE permits
    /\ waitq' = IF waitq = <<>> THEN waitq ELSE Tail(waitq)

\* the counters written with store where the code adds
RecordUsageStored(c, u) ==
    IF u.some
    THEN [prompt_tokens     |-> IF u.prompt_tokens.some THEN u.prompt_tokens.v ELSE c.prompt_tokens,
          completion_tokens |-> IF u.completion_tokens.some THEN u.completion_tokens.v
                                ELSE c.completion_tokens,
          total_tokens      |-> IF u.total_tokens.some THEN u.total_tokens.v ELSE c.total_tokens,
          requests          |-> c.requests + 1]
    ELSE [c EXCEPT !.requests = @ + 1]

RecordUsageOnlyWithUsage(c, u) ==
    IF u.some
    THEN [prompt_tokens     |-> c.prompt_tokens + u.prompt_tokens.v,
          completion_tokens |-> c.completion_tokens + u.completion_tokens.v,
          total_tokens      |-> c.total_tokens + u.total_tokens.v,
          requests          |-> c.requests + 1]
    ELSE c

OptAdd(n, opt) == IF opt.some THEN n + opt.v ELSE n

\* lines 99-127 on one UsageCounters
RecordUsage(c, u) ==
    IF u.some
    THEN [prompt_tokens     |-> OptAdd(c.prompt_tokens, u.prompt_tokens),
          completion_tokens |-> OptAdd(c.completion_tokens, u.completion_tokens),
          total_tokens      |-> OptAdd(c.total_tokens, u.total_tokens),
          requests          |-> c.requests + 1]
    ELSE [c EXCEPT !.requests = @ + 1]

CollectedWhenPulled(l) == loc[l].next_key > Len(loc[l].to_fill)

\* .collect().await of line 171 returns: the key stream is exhausted and every key
\* future has resolved
Collected(l) ==
    /\ loc[l].next_key > Len(loc[l].to_fill)
    /\ \A i \in 1..Len(loc[l].tasks) : loc[l].tasks[i].st = "done"

CanFinishLocale(l) ==
    /\ pc = "running"
    /\ loc[l].st = "Scheduled"
    /\ Collected(l)

\* all the futures run in the one task of handle_translate: a response is taken up
\* only once that task has run every future as far as its next await
Polled ==
    /\ ~CanStartLocale
    /\ \A l \in LocaleSet : ~CanStartKey(l) /\ ~CanFinishLocale(l)

InFlight(l, i) ==
    /\ pc = "running"
    /\ Polled
    /\ loc[l].tasks[i].st = "inflight"
    /\ loc[l].tasks[i].attempt < MaxAttempts

\* lines 95-146: a response with a success status and a body that parses
AttemptOk(l, i) ==
    /\ InFlight(l, i)
    /\ \E u \in UsageReports, raw \in RawOutputs :
          /\ usage' = RecordUsage(usage, u)
          /\ usage_by_locale' = [usage_by_locale EXCEPT
                                    ![l] = [present |-> TRUE, c |-> RecordUsage(@.c, u)]]
          /\ loc' = Handoff([Resolve(l, i, TranslateOk(Sanitize(raw)), u) EXCEPT
                                ![l].tasks[i].attempt = @ + 1])
    /\ Release
    /\ UNCHANGED <<cfg, fs, pc, source, next_locale, results, call>>

\* line 98: a success status whose body is no ChatResponse; translate returns the
\* error at once and the caller falls back to the source text (lines 162-165)
AttemptBadBody(l, i) ==
    /\ InFlight(l, i)
    /\ loc' = Handoff([Resolve(l, i, TranslateErr, NoUsage) EXCEPT
                          ![l].tasks[i].attempt = @ + 1])
    /\ Release
    /\ UNCHANGED <<cfg, fs, pc, source, next_locale, results, usage, usage_by_locale, call>>

\* lines 147-159: a non-success status or a transport error, then the backoff; after
\* the last attempt translate returns the error and the caller falls back
AttemptFail(l, i) ==
    /\ InFlight(l, i)
    /\ IF loc[l].tasks[i].attempt + 1 < MaxAttempts
       THEN /\ loc' = [loc EXCEPT ![l].tasks[i].attempt = @ + 1]
            /\ UNCHANGED <<permits, waitq>>
       ELSE /\ loc' = Handoff([Resolve(l, i, TranslateErr, NoUsage) EXCEPT
                                  ![l].tasks[i].attempt = @ + 1])
            /\ Release
    /\ UNCHANGED <<cfg, fs, pc, source, next_locale, results, usage, usage_by_locale, call>>

\* lines 147-151: the response has a non-success status
AttemptStatus(l, i) == AttemptFail(l, i)

\* line 153: the request failed in transport, no response was received
AttemptTransport(l, i) == AttemptFail(l, i)

\* lines 177-180: the merge loop; stops at the first error
RECURSIVE MergeUpdates(_, _)
MergeUpdates(target, updates) ==
    IF updates = <<>> THEN Done(target)
    ELSE IF ~updates[1].ok THEN Fail("ProviderError", target)
    ELSE LET r == set_value_at_path(target, updates[1].path, Str(updates[1].txt), TRUE)
         IN  IF r.err # "" THEN r ELSE MergeUpdates(r.v, Tail(updates))

\* what is left of a locale future once it has returned: its outcome and what it
\* logged; its locals (target, to_fill, updates) are dropped
Returned(st, would_update, err) ==
    [IdleLocale EXCEPT !.st = st, !.would_update = would_update, !.err = err]

\* lines 174-183: after the collect, report (dry run) or merge and write
FinishLocale(l) ==
    /\ CanFinishLocale(l)
    /\ IF SkipsWrite(cfg.dry_run)
       THEN /\ loc' = [loc EXCEPT ![l] = Returned("DryDone", Len(loc[l].updates), "")]
            /\ results' = Append(results, [locale |-> l, ok |-> TRUE])
            /\ UNCHANGED fs
       ELSE LET m == MergeUpdates(loc[l].target, loc[l].updates) IN
            IF m.err # ""
            THEN /\ loc' = [loc EXCEPT ![l] = Returned("Failed", -1, m.err)]
                 /\ results' = Append(results, [locale |-> l, ok |-> FALSE])
                 /\ UNCHANGED fs
            ELSE \E copy_ok \in BOOLEAN, io \in IoOutcomes :
                    /\ (fs[l].json.exists /\ ~fs[l].bak.exists) \/ copy_ok
                    /\ LET w == write_json_atomic(fs[l], m.v, copy_ok, io) IN
                       /\ fs' = [fs EXCEPT ![l] = w.d]
                       /\ loc' = [loc EXCEPT ![l] = IF w.ok THEN Returned("Persisted", -1, "")
                                                    ELSE Returned("Failed", -1, "IOError")]
                       /\ results' = Append(results, [locale |-> l, ok |-> w.ok])
    /\ UNCHANGED <<cfg, pc, source, next_locale, permits, waitq, usage, usage_by_locale, call>>

OuterCollectedOrFailed ==
    \/ next_locale > Len(Locales) /\ LocalesInProgress = 0
    \/ \E k \in 1..Len(results) : ~results[k].ok

\* .collect().await of line 187 returns: the locale stream is exhausted and every
\* locale future has returned, with Ok or with Err
OuterCollected ==
    /\ next_locale > Len(Locales)
    /\ LocalesInProgress = 0

\* lines 186-190: the outer collect returns, the first error is propagated
FinishRun ==
    /\ pc = "running"
    /\ OuterCollected
    /\ pc' = IF \A k \in 1..Len(results) : results[k].ok THEN "done_ok" ELSE "done_err"
    /\ UNCHANGED <<cfg, fs, source, next_locale, loc, results, permits, waitq, usage, usage_by_locale, call>>

Next ==
    \/ Begin
    \/ StartLocale
    \/ \E l \in LocaleSet : StartKey(l)
    \/ \E l \in LocaleSet : \E i \in 1..Len(loc[l].tasks) : AttemptOk(l, i)
    \/ \E l \in LocaleSet : \E i \in 1..Len(loc[l].tasks) : AttemptBadBody(l, i)
    \/ \E l \in LocaleSet : \E i \in 1..Len(loc[l].tasks) : AttemptStatus(l, i)
    \/ \E l \in LocaleSet : \E i \in 1..Len(loc[l].tasks) : AttemptTransport(l, i)
    \/ \E l \in LocaleSet : FinishLocale(l)
    \/ FinishRun

Spec == Init /\ [][Next]_vars

\* the runs in which no target catalog exists yet
InitFresh ==
    /\ cfg \in [concurrency : 0..MaxConcurrency, overwrite : BOOLEAN, dry_run : BOOLEAN]
    /\ \E s \in {SrcFlat, SrcNested, SrcArray} :
          fs = FilesOf([source |-> s, fr |-> NoFile, de |-> NoFile])
    /\ Idle

SpecFresh == InitFresh /\ [][Next]_vars

\* the runs in which the catalog of fr exists and holds no JSON
InitCorrupt ==
    /\ cfg \in [concurrency : 0..MaxConcurrency, overwrite : BOOLEAN, dry_run : BOOLEAN]
    /\ \E s \in {SrcFlat, SrcNested} :
          fs = FilesOf([source |-> s, fr |-> CorruptFile, de |-> NoFile])
    /\ Idle

SpecCorrupt == InitCorrupt /\ [][Next]_vars

\* the runs with concurrency 0 and 1
InitLive ==
    /\ cfg \in [concurrency : {0, 1}, overwrite : BOOLEAN, dry_run : BOOLEAN]
    /\ \E c \in Catalogs : fs = FilesOf(c)
    /\ Idle

\* handle_translate is polled by the runtime until it returns, and every provider
\* attempt returns: a step that can be taken is taken
SpecLive == InitLive /\ [][Next]_vars /\ WF_vars(Next)

\* the runs with concurrency at least 1 in which fr has two keys to fill and de one:
\* with concurrency 2 the three calls contend for the two permits
InitGate ==
    /\ cfg \in [concurrency : 1..MaxConcurrency, overwrite : {FALSE}, dry_run : {FALSE}]
    /\ fs = FilesOf([source |-> SrcFlat, fr |-> NoFile, de |-> FileOf(TgtExtra)])
    /\ Idle

SpecGate == InitGate /\ [][Next]_vars /\ WF_vars(Next)

(***************************************************************************)
(* Single calls of the pure functions on a bounded family of documents.    *)
(***************************************************************************)
\* the longest array of the family
MaxLen == 2

Keys == {<<"a">>, <<"b">>, <<"a", ".", "b">>, <<"a", "\\", "b">>}

Scalars == {Str(<<"x">>), Str(<<>>), Number}

SeqsOf(S, n) == UNION {[1..k -> S] : k \in 1..n}

Arrays == {Arr(a) : a \in SeqsOf(Scalars, MaxLen)}

Flat == Scalars \cup Arrays

Objects1 == {Obj({<<k, v>>}) : k \in Keys, v \in Flat}

Objects2 == {Obj({<<<<"a">>, v>>, <<<<"b">>, w>>}) : v \in Scalars, w \in Scalars}

Nested == {Obj({<<k, Obj({<<j, v>>})>>}) : k \in Keys, j \in Keys, v \in Scalars}

ArraysOfObjects == {Arr(<<Obj({<<k, v>>})>>) : k \in Keys, v \in Scalars}

Docs == {EmptyObject} \cup Flat \cup Objects1 \cup Objects2 \cup Nested \cup ArraysOfObjects

RECURSIVE AllStringLeaves(_)
AllStringLeaves(d) ==
    CASE d.t = "String" -> TRUE
      [] d.t = "Object" -> \A e \in d.m : AllStringLeaves(e[2])
      [] d.t = "Array"  -> \A i \in 1..Len(d.a) : AllStringLeaves(d.a[i])
      [] OTHER          -> FALSE

\* set_value_at_path(.., createMissing = true) for every entry of a flat mapping, in
\* the order of the mapping; ok is whether every call succeeded
RECURSIVE MergeEntries(_, _, _)
MergeEntries(root, entries, ok) ==
    IF entries = <<>> THEN [ok |-> ok, v |-> root]
    ELSE LET r == set_value_at_path(root, entries[1][1], Str(entries[1][2]), TRUE)
         IN  MergeEntries(r.v, Tail(entries), ok /\ r.err = "")

CallRoundTrip ==
    /\ call.op = "none"
    /\ \E d \in Docs :
          LET r == MergeEntries(EmptyObject, MapIter(Flatten(d)), TRUE)
          IN  call' = [NoCall EXCEPT !.op = "roundtrip", !.src = d, !.ok = r.ok, !.doc = r.v]
    /\ UNCHANGED <<cfg, fs, pc, source, next_locale, loc, results, permits, waitq, usage,
                   usage_by_locale>>

CallDiff ==
    /\ call.op = "none"
    /\ \E d \in Docs, t \in Docs, o \in BOOLEAN :
          call' = [NoCall EXCEPT !.op = "diff", !.src = d, !.tgt = t, !.overwrite = o,
                                 !.list = compute_missing_translations(d, t, o)]
    /\ UNCHANGED <<cfg, fs, pc, source, next_locale, loc, results, permits, waitq, usage,
                   usage_by_locale>>

\* the longest sequence of segments of the family
MaxSegs == 2

\* keys of segments: plain, with a dot, with a backslash, with brackets
SegKeys == Keys \cup {<<"a", "[", "0", "]">>}

Segments == {KeySeg(k) : k \in SegKeys} \cup {IndexSeg(n) : n \in 0..MaxLen}

\* the path flatten_string_paths builds for the leaf reached by the segments segs
\* below the prefix: diff.rs line 11 for a key, line 17 for an index
RECURSIVE PathFrom(_, _)
PathFrom(segs, prefix) ==
    IF segs = <<>> THEN prefix.p
    ELSE LET seg == segs[1]
             key == IF seg.k = "Key"
                    THEN (IF prefix.some /\ prefix.p # <<>>
                          THEN prefix.p \o <<".">> \o escape_key(seg.key)
                          ELSE escape_key(seg.key))
                    ELSE (IF prefix.some
                          THEN prefix.p \o <<"[">> \o ToDec(seg.idx) \o <<"]">>
                          ELSE <<"[">> \o ToDec(seg.idx) \o <<"]">>)
         IN  PathFrom(Tail(segs), SomePrefix(key))

PathOf(segs) == PathFrom(segs, NoPrefix)

CallPath ==
    /\ call.op = "none"
    /\ \E segs \in SeqsOf(Segments, MaxSegs) :
          call' = [NoCall EXCEPT !.op = "path", !.segs = segs, !.path = PathOf(segs),
                                 !.parsed = parse_dot_path(PathOf(segs))]
    /\ UNCHANGED <<cfg, fs, pc, source, next_locale, loc, results, permits, waitq, usage,
                   usage_by_locale>>

\* the nodes and paths of the explored calls of set_value_at_path
SetRoots == Docs \cup {Null, Arr(<<>>)}

SetPaths ==
    { <<>>, <<".">>, <<"a">>, <<"a", ".", "b">>, <<"a", "[", "0", "]">>,
      <<"[", "0", "]">>, <<"[", "2", "]">>, <<"[", "0", "]", ".", "a">>,
      <<"[", "2", "]", ".", "a">> }

NewText == <<"T">>

CallSet ==
    /\ call.op = "none"
    /\ \E root \in SetRoots, path \in SetPaths, create_missing \in BOOLEAN :
          LET r == set_value_at_path(root, path, Str(NewText), create_missing)
          IN  call' = [NoCall EXCEPT !.op = "set", !.src = root, !.path = path,
                                     !.create = create_missing, !.err = r.err, !.doc = r.v]
    /\ UNCHANGED <<cfg, fs, pc, source, next_locale, loc, results, permits, waitq, usage,
                   usage_by_locale>>

\* the longest text of the family
MaxText == 4

TextChars == {"{", "}", "n", ":", "%", "s"}

ExampleText ==
    <<"H", "e", "l", "l", "o", " ", "{", "{", "n", "a", "m", "e", "}", "}", ",", " ",
    "y", "o", "u", " ", "h", "a", "v", "e", " ", ":", "c", "o", "u", "n", "t", " ", "i",
    "t", "e", "m", "s", " ", "%", "s">>

Texts == {<<>>, ExampleText} \cup SeqsOf(TextChars, MaxText)

CallExtract ==
    /\ call.op = "none"
    /\ \E s \in Texts :
          call' = [NoCall EXCEPT !.op = "extract", !.text = s,
                                 !.list = extract_placeholders(s)]
    /\ UNCHANGED <<cfg, fs, pc, source, next_locale, loc, results, permits, waitq, usage,
                   usage_by_locale>>

\* the files of the explored set commands
SetFiles == {NoFile, CorruptFile, FileOf(SrcFlat), FileOf(SrcNested), FileOf(TgtArray)}

CallHandleSet ==
    /\ call.op = "none"
    /\ \E f \in SetFiles, path \in SetPaths, create_missing \in BOOLEAN,
          copy_ok \in BOOLEAN, io \in IoOutcomes :
          LET r == handle_set(Dir(f), path, NewText, create_missing, copy_ok, io)
          IN  call' = [NoCall EXCEPT !.op = "handle_set", !.path = path,
                                     !.create = create_missing, !.before = Dir(f),
                                     !.ok = r.ok, !.after = r.d]
    /\ UNCHANGED <<cfg, fs, pc, source, next_locale, loc, results, permits, waitq, usage,
                   usage_by_locale>>

\* the longest provider output of the family
MaxRaw == 5

\* the characters of the explored provider outputs: the quotes, a letter, a line feed
RawChars == {"DQ", "LDQ", "RDQ", "SQ", "x", "LF"}

CallSanitize ==
    /\ call.op = "none"
    /\ \E raw \in {<<>>} \cup SeqsOf(RawChars, MaxRaw) :
          call' = [NoCall EXCEPT !.op = "sanitize", !.text = raw, !.out = Sanitize(raw)]
    /\ UNCHANGED <<cfg, fs, pc, source, next_locale, loc, results, permits, waitq, usage,
                   usage_by_locale>>

(***************************************************************************)
(* A sequence of set commands on the catalog of fr: each command is a run  *)
(* of the program with one write.  The copy to the backup is taken to      *)
(* succeed whenever it is made; the write and the rename may fail.         *)
(***************************************************************************)
RunSet ==
    /\ \E path \in {kA, kB, <<"a", ".", "b">>}, text \in {<<"T">>, <<"x">>},
          io \in IoOutcomes :
          LET r == handle_set(fs["fr"], path, text, TRUE, TRUE, io)
          IN  /\ fs' = [fs EXCEPT !["fr"] = r.d]
              /\ call' = [NoCall EXCEPT !.op = "run_set", !.path = path, !.out = text,
                                        !.before = fs["fr"], !.ok = r.ok, !.after = r.d]
    /\ UNCHANGED <<cfg, pc, source, next_locale, loc, results, permits, waitq, usage,
                   usage_by_locale>>

InitWrites ==
    /\ cfg = [concurrency |-> 1, overwrite |-> FALSE, dry_run |-> FALSE]
    /\ \E f \in {NoFile, FileOf(SrcFlat)} :
          fs = [l \in LocaleSet |-> IF l = "fr" THEN Dir(f) ELSE Dir(NoFile)]
    /\ Idle

SpecWrites == InitWrites /\ [][RunSet]_vars

InitDoc ==
    /\ cfg = [concurrency |-> 1, overwrite |-> FALSE, dry_run |-> FALSE]
    /\ fs = [l \in LocaleSet |-> Dir(NoFile)]
    /\ Idle

NextDoc ==
    \/ CallRoundTrip
    \/ CallDiff
    \/ CallPath
    \/ CallSet
    \/ CallExtract
    \/ CallHandleSet
    \/ CallSanitize

SpecDoc == InitDoc /\ [][NextDoc]_vars

(***************************************************************************)
(* Properties                                                              *)
(***************************************************************************)
InFlightCalls ==
    UNION {{<<l, i>> : i \in {j \in 1..Len(loc[l].tasks) : loc[l].tasks[j].st = "inflight"}} :
           l \in LocaleSet}

\* the locale future of l returns in this step
FinishStep(l) == loc[l].st = "Scheduled" /\ loc'[l].st # "Scheduled"

\* the target document the run found for l
Found(l) == LET r == read_json_file(fs[l].json) IN IF r.ok THEN r.v ELSE EmptyObject

\* C1: at every point of a run the number of translate calls that hold a permit,
\* over all locales and keys, is at most max(1, concurrency)
C1_GateCeiling ==
    Cardinality(InFlightCalls) <= (IF cfg.concurrency > 1 THEN cfg.concurrency ELSE 1)

\* more calls outstanding than permits: the gate is full and a call waits
C1_Witness ==
    /\ cfg.concurrency = 2
    /\ Cardinality(InFlightCalls) = 2
    /\ waitq # <<>>

\* C2: when a locale of a non-dry run is persisted, its file holds the source text
\* at the path of every key whose call failed and the provider's output at the path
\* of every key whose call succeeded; a locale never fails on a provider error
C2_PartialFailure ==
    [][\A l \in LocaleSet :
          (FinishStep(l) /\ ~cfg.dry_run) =>
              /\ loc'[l].err \in {"", "InvalidDotPath", "PathNotFound", "IOError"}
              /\ loc'[l].st = "Persisted" =>
                    \A i \in 1..Len(loc[l].tasks) :
                        LET flat == Flatten(fs'[l].json.doc) IN
                        /\ MapHas(flat, Path(l, i))
                        /\ MapGet(flat, Path(l, i)) =
                              IF loc[l].tasks[i].kind = "fallback" THEN English(l, i)
                              ELSE loc[l].tasks[i].tx]_vars

\* fr had no file: its written file holds the source text at "a" (the call failed)
\* and the provider's output at "b"
C2_Witness ==
    /\ ~cfg.dry_run
    /\ loc["fr"].st = "Persisted"
    /\ Flatten(fs["fr"].json.doc) = {<<kA, <<"x">>>>, <<kB, <<"T">>>>}

\* C3: every locale processed in a non-dry run ends (unless the write itself fails)
\* with a string at every source leaf path of its persisted document
C3_EveryLeafFilled ==
    [][\A l \in LocaleSet :
          (FinishStep(l) /\ ~cfg.dry_run /\ loc'[l].err # "IOError") =>
              /\ fs'[l].json.exists
              /\ \A e \in Flatten(source) : MapHas(Flatten(fs'[l].json.doc), e[1])]_vars

\* C4: after a locale has been processed, every leaf of the target found by the run
\* whose path is no source leaf path is still in the file, with the same value
C4_TargetOnlyKept ==
    [][\A l \in LocaleSet :
          FinishStep(l) =>
              \A e \in Flatten(Found(l)) :
                  ~MapHas(Flatten(source), e[1]) => e \in Flatten(fs'[l].json.doc)]_vars

\* C5: merging every entry of flatten(d) into an empty document succeeds and gives a
\* document that flattens to flatten(d), for every d whose leaves are all strings
C5_RoundTrip ==
    (call.op = "roundtrip" /\ AllStringLeaves(call.src)) =>
        (call.ok /\ Flatten(call.doc) = Flatten(call.src))

PairsOf(list) == {list[i] : i \in 1..Len(list)}

\* C6: compute_missing_translations returns every entry of the flattened source
\* once when overwrite is set, and otherwise exactly the entries whose path is not
\* in the flattened target or has the empty string there
C6_DiffExact ==
    call.op = "diff" =>
        LET S == Flatten(call.src)
            T == Flatten(call.tgt)
        IN  /\ \A i, j \in 1..Len(call.list) : i # j => call.list[i][1] # call.list[j][1]
            /\ PairsOf(call.list) =
                  {e \in S : call.overwrite \/ (\A f \in T : f[1] = e[1] => f[2] = <<>>)}

\* without overwrite: one source leaf is returned because the target holds "" there,
\* another is left out because the target holds a text there
C6_Witness ==
    /\ call.op = "diff"
    /\ ~call.overwrite
    /\ \E e \in PairsOf(call.list) : <<e[1], <<>>>> \in Flatten(call.tgt)
    /\ \E e \in Flatten(call.src) :
          /\ e \notin PairsOf(call.list)
          /\ MapHas(Flatten(call.tgt), e[1])

\* C7: a locale is merged and written only in the step in which its future returns,
\* and then every one of its key futures has resolved and none of its calls waits
\* for or holds a permit
C7_MergeAfterResolved ==
    [][\A l \in LocaleSet :
          /\ fs'[l] # fs[l] => FinishStep(l)
          /\ FinishStep(l) =>
                /\ Len(loc[l].updates) = Len(loc[l].to_fill)
                /\ \A i \in 1..Len(loc[l].tasks) : loc[l].tasks[i].st = "done"
                /\ \A k \in 1..Len(waitq) : waitq[k][1] # l]_vars

\* fr has been written while a request of de is still in flight
C7_Witness ==
    /\ loc["fr"].st = "Persisted"
    /\ fs["fr"].json.exists
    /\ \E c \in InFlightCalls : c[1] = "de"

RECURSIVE SumReported(_)
SumReported(ts) ==
    IF ts = <<>> THEN ZeroCounters
    ELSE LET r == SumReported(Tail(ts))
             u == ts[1].reported
         IN  IF ts[1].kind # "ok" THEN r
             ELSE [prompt_tokens     |-> r.prompt_tokens + u.prompt_tokens.v,
                   completion_tokens |-> r.completion_tokens + u.completion_tokens.v,
                   total_tokens      |-> r.total_tokens + u.total_tokens.v,
                   requests          |-> r.requests + 1]

SumLocales(f) ==
    LET c == usage_by_locale IN
    c["fr"].c[f] + c["en"].c[f] + c["de"].c[f]

\* C8: once the calls of a locale have all returned successfully, the counters of
\* the locale are the sums of what the provider reported and its request counter is
\* the number of calls (a response without usage counts one request, no tokens);
\* the global counters are the sums of the counters of the locales
C8_UsageSums ==
    /\ \A l \in LocaleSet :
          (/\ loc[l].st = "Scheduled"
           /\ Collected(l)
           /\ \A i \in 1..Len(loc[l].tasks) : loc[l].tasks[i].kind = "ok") =>
              /\ usage_by_locale[l].c = SumReported(loc[l].tasks)
              /\ usage_by_locale[l].c.requests = Len(loc[l].tasks)
    /\ \A f \in DOMAIN ZeroCounters : usage[f] = SumLocales(f)

\* two calls of fr have returned, one response with usage and one without
C8_Witness ==
    /\ loc["fr"].st = "Scheduled"
    /\ Collected("fr")
    /\ Len(loc["fr"].tasks) = 2
    /\ loc["fr"].tasks[1].kind = "ok" /\ loc["fr"].tasks[1].reported.some
    /\ loc["fr"].tasks[2].kind = "ok" /\ ~loc["fr"].tasks[2].reported.some
    /\ usage_by_locale["fr"].c.requests = 2

\* C9: in a dry run no call waits for or holds a permit, no usage counter and no
\* file changes, and the count a locale reports is the length of its diff
C9_DryRun ==
    [][cfg.dry_run =>
          /\ fs' = fs
          /\ usage' = usage /\ usage_by_locale' = usage_by_locale
          /\ InFlightCalls' = {} /\ waitq' = <<>>
          /\ \A l \in LocaleSet :
                FinishStep(l) =>
                    loc'[l].would_update =
                        Len(compute_missing_translations(source, Found(l), cfg.overwrite))]_vars

\* a dry run has reported two keys for fr
C9_Witness ==
    /\ cfg.dry_run
    /\ loc["fr"].st = "DryDone"
    /\ loc["fr"].would_update = 2

Returns == {"Skipped", "NoWork", "DryDone", "Persisted", "Failed"}

\* C10: the run ends only when every locale future has returned: a failed locale
\* leaves no sibling unprocessed
C10_SiblingsComplete ==
    (pc \in {"done_ok", "done_err"} /\ results # <<>>) =>
        \A l \in LocaleSet : loc[l].st \in Returns

\* a run has ended in which one locale failed and the other was written afterwards
C10_Witness ==
    /\ pc = "done_err"
    /\ Len(results) = 3
    /\ \E l \in LocaleSet :
          /\ loc[l].st = "Failed"
          /\ \E k \in LocaleSet : loc[k].st = "Persisted" /\ fs[k].json.exists
          /\ \E i, j \in 1..3 : i < j /\ results[i].locale = l /\ ~results[i].ok /\ results[j].ok
                                /\ results[j].locale # SourceLocale

\* C11: a translate call makes at most 3 attempts, and one that has returned an
\* error (its key fell back to the source text) has made exactly 3
C11_ThreeAttempts ==
    \A l \in LocaleSet : \A i \in 1..Len(loc[l].tasks) :
        /\ loc[l].tasks[i].attempt <= MaxAttempts
        /\ (loc[l].tasks[i].st = "done" /\ loc[l].tasks[i].kind = "fallback") =>
              loc[l].tasks[i].attempt = MaxAttempts

\* C12: every attempt that receives a response, with a success status or not, adds
\* exactly 1 to the request counter of the global ledger and of the ledger of the
\* target locale
C12_ResponseCounted ==
    [][\A l \in LocaleSet : \A i \in 1..Len(loc[l].tasks) :
          (AttemptOk(l, i) \/ AttemptBadBody(l, i) \/ AttemptStatus(l, i)) =>
              /\ usage'.requests = usage.requests + 1
              /\ usage_by_locale'[l].c.requests = usage_by_locale[l].c.requests + 1]_vars

\* C13: the path the flattener builds for a sequence of Key and Index segments is
\* parsed by parse_dot_path back to the same sequence
C13_PathRoundTrip ==
    call.op = "path" => (call.parsed.ok /\ call.parsed.segs = call.segs)

\* the segments of the path of a call of set_value_at_path
SegsOf(path) == parse_dot_path(path).segs

\* C14: setting a value at the single Index segment n on Null (createMissing set)
\* or on an Array gives an array of length max(old length, n + 1) with the value in
\* slot n, Null in the new slots below n and the other old slots unchanged
C14_TerminalIndex ==
    (/\ call.op = "set"
     /\ Len(SegsOf(call.path)) = 1
     /\ SegsOf(call.path)[1].k = "Index"
     /\ call.src.t = "Array" \/ (call.src.t = "Null" /\ call.create)) =>
        LET n   == SegsOf(call.path)[1].idx
            old == call.src.a
            new == call.doc.a
        IN  /\ call.err = ""
            /\ call.doc.t = "Array"
            /\ Len(new) = (IF Len(old) > n + 1 THEN Len(old) ELSE n + 1)
            /\ new[n + 1] = Str(NewText)
            /\ \A i \in 1..Len(new) :
                  i # n + 1 => new[i] = (IF i <= Len(old) THEN old[i] ELSE Null)

\* "[2]" set on Null gives [Null, Null, value]
C14_Witness ==
    /\ call.op = "set"
    /\ call.src = Null
    /\ call.path = <<"[", "2", "]">>
    /\ call.doc = Arr(<<Null, Null, Str(NewText)>>)

\* C15: extract_placeholders returns each token once, the text of the example gives
\* exactly {{name}}, :count, %s, and a double-brace token in the result never comes
\* with a single-brace token cut out of it
C15_Placeholders ==
    call.op = "extract" =>
        /\ \A i, j \in 1..Len(call.list) : i # j => call.list[i] # call.list[j]
        /\ call.text = ExampleText =>
              call.list = << <<"{", "{", "n", "a", "m", "e", "}", "}">>,
                             <<":", "c", "o", "u", "n", "t">>, <<"%", "s">> >>
        /\ \A i \in 1..Len(call.list) :
              LET t == call.list[i] IN
              MatchMustache(t, 1) = Len(t) + 1 =>
                  /\ ~Contains(call.list, SubSeq(t, 1, Len(t) - 1))
                  /\ ~Contains(call.list, SubSeq(t, 2, Len(t) - 1))

\* C16: a run with concurrency 0 terminates, as a run with concurrency 1 does
C16_ZeroTerminates == (cfg.concurrency = 0) ~> (pc \in {"done_ok", "done_err"})

\* C17: the source locale of a run is never diffed (it gets no list of keys, no key
\* future and is never found without work), never has a call waiting for or holding
\* a permit, never gets a usage entry, and none of its files is ever written
C17_SourceSkipped ==
    [][/\ fs'[SourceLocale] = fs[SourceLocale]
       /\ usage_by_locale'[SourceLocale] = NoEntry
       /\ loc'[SourceLocale].st \in {"Pending", "Skipped"}
       /\ loc'[SourceLocale].to_fill = <<>>
       /\ loc'[SourceLocale].tasks = <<>>
       /\ \A k \in 1..Len(waitq') : waitq'[k][1] # SourceLocale]_vars

\* a run has ended in which the source locale was skipped and another locale was
\* translated and written
C17_Witness ==
    /\ pc = "done_ok"
    /\ loc[SourceLocale].st = "Skipped"
    /\ loc["de"].st = "Persisted"
    /\ usage_by_locale["de"].present

\* C18: at a non-terminal Index segment n on an Array shorter than n + 1, with
\* createMissing the array grows to length n + 1 and its new slots below n are Null;
\* without it the call fails with PathNotFound and the array is left as it was
C18_NonTerminalIndex ==
    (/\ call.op = "set"
     /\ Len(SegsOf(call.path)) = 2
     /\ SegsOf(call.path)[1].k = "Index"
     /\ call.src.t = "Array"
     /\ Len(call.src.a) < SegsOf(call.path)[1].idx + 1) =>
        LET n == SegsOf(call.path)[1].idx IN
        IF call.create
        THEN /\ call.doc.t = "Array"
             /\ Len(call.doc.a) = n + 1
             /\ \A i \in (Len(call.src.a) + 1)..n : call.doc.a[i] = Null
        ELSE /\ call.err = "PathNotFound"
             /\ call.doc = call.src

\* C19: at the non-terminal Key segment of "a.b", the call fails with InvalidDotPath
\* exactly when the node is neither an Object nor Null; on an Object without the key
\* it fails with PathNotFound when createMissing is unset and inserts an Object
\* when it is set
C19_NonTerminalKey ==
    (call.op = "set" /\ call.path = <<"a", ".", "b">>) =>
        /\ call.src.t \notin {"Object", "Null"} => call.err = "InvalidDotPath"
        /\ call.src.t = "Null" => call.err # "InvalidDotPath"
        /\ (call.src.t = "Object" /\ ~ObjHas(call.src.m, kA)) =>
              IF call.create
              THEN /\ call.err = ""
                   /\ call.doc = Obj(ObjInsert(call.src.m, kA, Obj({<<kB, Str(NewText)>>})))
              ELSE /\ call.err = "PathNotFound"
                   /\ call.doc = call.src

\* C20: a set command whose path parses to no segment is rejected: it never
\* succeeds
C20_EmptyPathRejected ==
    (/\ call.op = "handle_set"
     /\ parse_dot_path(call.path).ok
     /\ SegsOf(call.path) = <<>>) => ~call.ok

\* a line that carries a matching pair of quotes at its two ends
Quoted(line) ==
    /\ Len(line) >= 2
    /\ \E k \in 1..Len(QuotePairs) :
          line[1] = QuotePairs[k][1] /\ line[Len(line)] = QuotePairs[k][2]

\* C21: translate returns the first non-empty line of the output, trimmed, with one
\* layer of quotes removed when its two ends carry a matching pair and none removed
\* otherwise: an output in two nested layers of quotes keeps the inner one
C21_OneLayer ==
    call.op = "sanitize" =>
        LET line == Trim(FirstNonEmpty(Lines(call.text, <<>>)))
        IN  call.out = IF Quoted(line) THEN Trim(SubSeq(line, 2, Len(line) - 1)) ELSE line

\* C22: in a non-dry run a locale whose target file exists and cannot be parsed
\* does not end as processed (nothing to do, or written), and its files are left as
\* they were
C22_CorruptTargetFails ==
    [][\A l \in LocaleSet :
          (~cfg.dry_run /\ fs[l].json.exists /\ ~fs[l].json.parses) =>
              /\ fs'[l] = fs[l]
              /\ loc'[l].st \notin {"NoWork", "Persisted"}]_vars

\* C23: after the write of a run to a file that existed, the backup next to it
\* holds the content the file had immediately before that write
C23_BackupIsPrevious ==
    [][(call'.op = "run_set" /\ call'.ok /\ fs["fr"].json.exists) =>
          fs'["fr"].bak = fs["fr"].json]_vars

\* C24: with concurrency at least 1, a run that has started its work ends: every
\* locale reaches an outcome, no call is left waiting for the gate, and every permit
\* is back in the gate
C24_GateLive ==
    (pc = "running") ~>
        (/\ pc \in {"done_ok", "done_err"}
         /\ \A l \in LocaleSet : loc[l].st \in Returns
         /\ waitq = <<>>
         /\ permits = (IF cfg.concurrency > 1 THEN cfg.concurrency ELSE 1))

\* both locales are in progress, the gate is full and a call waits for a permit
C24_Witness ==
    /\ loc["fr"].st = "Scheduled"
    /\ loc["de"].st = "Scheduled"
    /\ permits = 0
    /\ waitq # <<>>

\* C25: when set_value_at_path returns an error, the root document is exactly
\* what it was before the call: no container was created, grown or converted
C25_ErrorLeavesRoot ==
    (call.op = "set" /\ call.err # "") => call.doc = call.src

\* C26: in every step of a run each global counter is at least the sum of the
\* counters of the locales, before and after; no global and no locale counter
\* decreases; no entry of a locale is removed; and when the step leaves no call in
\* progress, each global counter equals the sum of the counters of the locales
C26_Ledgers ==
    [][/\ \A f \in DOMAIN ZeroCounters :
             /\ usage[f] >= SumLocales(f)
             /\ usage'[f] >= SumLocales(f)'
             /\ usage'[f] >= usage[f]
             /\ \A l \in LocaleSet : usage_by_locale'[l].c[f] >= usage_by_locale[l].c[f]
             /\ (InFlightCalls' = {} /\ waitq' = <<>>) => usage'[f] = SumLocales(f)'
       /\ \A l \in LocaleSet : usage_by_locale[l].present => usage_by_locale'[l].present]_vars

\* both locales have an entry with reported tokens, the global counter holds their
\* sum, and a call is still in progress
C26_Witness ==
    /\ usage_by_locale["fr"].present /\ usage_by_locale["fr"].c.prompt_tokens > 0
    /\ usage_by_locale["de"].present /\ usage_by_locale["de"].c.prompt_tokens > 0
    /\ usage.prompt_tokens = SumLocales("prompt_tokens")
    /\ usage.prompt_tokens >= 2
    /\ InFlightCalls # {}

====
